---------------------------- MODULE Spec2Model ----------------------------
(***************************************************************************)
(* Model of newline_normalizer (src/src/lib.rs): the two byte-level        *)
(* rewrite routines to_unix_newlines and to_dos_newlines, executed one     *)
(* loop iteration per step, and a caller that feeds the result of one call *)
(* into the next (as src/benches/to_unix.rs does).                         *)
(*                                                                         *)
(* Byte offsets are 0-based as in the source; TLA+ sequences are 1-based,  *)
(* so byte i of a slice s is s[i + 1].                                     *)
(***************************************************************************)
EXTENDS Integers, Sequences, FiniteSets, TLC

VARIABLES text, frame, calls

vars == <<text, frame, calls>>

(***************************************************************************)
(* Bounds of the model.                                                    *)
(***************************************************************************)
MaxLen == 4
MaxCalls == 2

(***************************************************************************)
(* Bytes.                                                                  *)
(***************************************************************************)
CR == 13
LF == 10
LatinA == 97
EAcuteLead == 195
EAcuteCont == 169

\* usize::MAX, the "no unpaired match" sentinel of to_dos_newlines; it is
\* larger than every byte offset (here the largest integer TLC represents).
UsizeMax == 2147483647

\* Option::None of an iterator's next().
None == -1

\* The characters input texts are built from: the two newline bytes, an ASCII
\* letter and a two-byte code point.
Chars == {"cr", "lf", "a", "e'"}

\* str::as_bytes of one character.
CharBytes(c) ==
    CASE c = "cr" -> <<CR>>
      [] c = "lf" -> <<LF>>
      [] c = "a"  -> <<LatinA>>
      [] c = "e'" -> <<EAcuteLead, EAcuteCont>>

RECURSIVE AsBytes(_)
AsBytes(cs) ==
    IF cs = <<>> THEN <<>> ELSE CharBytes(Head(cs)) \o AsBytes(Tail(cs))

CharSeqs == UNION { [1..n -> Chars] : n \in 0..MaxLen }

\* Every valid UTF-8 text of at most MaxLen characters over Chars.
Texts == { AsBytes(cs) : cs \in CharSeqs }

(***************************************************************************)
(* Primitives.                                                             *)
(***************************************************************************)
\* len.saturating_sub(1)
EndIndex(len) == IF len = 0 THEN 0 ELSE len - 1

\* slice[i] for an in-bounds i
At(s, i) == s[i + 1]

\* &slice[from..to]
Slice(s, from, to) == SubSeq(s, from + 1, to)

Min(S) == CHOOSE x \in S : \A y \in S : x <= y

\* next() of memchr_iter / memchr2_iter: the first offset at or after `from`
\* holding one of the needles, or None.
Memchr(s, needles, from) ==
    LET hits == { i \in from..(Len(s) - 1) : At(s, i) \in needles }
    IN  IF hits = {} THEN None ELSE Min(hits)

\* str::replace: every non-overlapping occurrence of pat, left to right.
RECURSIVE Replace(_, _, _)
Replace(s, pat, to) ==
    IF s = <<>> THEN <<>>
    ELSE IF Len(s) >= Len(pat) /\ SubSeq(s, 1, Len(pat)) = pat
         THEN to \o Replace(SubSeq(s, Len(pat) + 1, Len(s)), pat, to)
         ELSE <<s[1]>> \o Replace(SubSeq(s, 2, Len(s)), pat, to)

\* The locals of a call that has been entered but has not run yet.
NewFrame(op, arg) ==
    [ op    |-> op,        \* "unix" or "dos"
      slice |-> arg,       \* self.as_bytes()
      pc    |-> "start",
      it    |-> 0,         \* offset the iterator resumes at
      m     |-> None,      \* cr / crlf
      prev  |-> None,      \* the match the iterator yielded before m
      pos   |-> 0,
      out   |-> <<>>,
      res   |-> [tag |-> "none", str |-> <<>>],
      reads |-> {},        \* offsets indexed by the last step
      span  |-> <<0, 0>>,  \* range sliced by the last step
      iters |-> 0 ]        \* iterations of the rewrite loop so far

IdleFrame == [NewFrame("none", <<>>) EXCEPT !.pc = "idle"]

\* An index or a range out of bounds aborts the call.
Panic(f, rd, sp) ==
    [f EXCEPT !.pc = "panic", !.reads = rd, !.span = sp]

InBounds(s, rd, sp) ==
    /\ \A i \in rd : 0 <= i /\ i < Len(s)
    /\ sp[1] <= sp[2]
    /\ sp[2] <= Len(s)

(***************************************************************************)
(* to_unix_newlines                                                        *)
(***************************************************************************)
\* Slip: the two-byte DOS newline pushed by the unix routine.
UnixNewlineCrLf == <<CR, LF>>

\* out.push(b'\n')
UnixNewline == <<LF>>

\* Slip: the '\n' after a '\r' is never looked at.
UnixPairGuardNever(cr, end_index) == FALSE

\* Slip: off by one, the byte after the last byte is looked at.
UnixPairGuardInclusive(cr, end_index) == cr <= end_index

\* cr < end_index: is there a byte after the '\r' to look at
UnixPairGuard(cr, end_index) == cr < end_index

\* Slip: the tail is compared against end_index, losing a one-byte tail.
UnixCopyTailShort(s, pos) ==
    IF pos < EndIndex(Len(s)) THEN Slice(s, pos, Len(s)) ELSE <<>>

\* if pos < len { out.extend_from_slice(&slice[pos..]) }
UnixCopyTail(s, pos) ==
    IF pos < Len(s) THEN Slice(s, pos, Len(s)) ELSE <<>>

\* Slip: no fast path, an input without '\r' is copied into a new buffer.
UnixStartStepNoFastPath(f) ==
    LET cr == Memchr(f.slice, {CR}, 0)
    IN  IF cr = None
        THEN [f EXCEPT !.pc = "tail", !.out = <<>>, !.pos = 0]
        ELSE [f EXCEPT !.pc = "loop", !.m = cr, !.it = cr + 1,
                       !.out = <<>>, !.pos = 0]

\* Entry up to the loop: the first '\r', or the borrowed fast path.
UnixStartStep(f) ==
    LET cr == Memchr(f.slice, {CR}, 0)
    IN  IF cr = None
        THEN [f EXCEPT !.pc = "done",
                       !.res = [tag |-> "Borrowed", str |-> f.slice]]
        ELSE [f EXCEPT !.pc = "loop", !.m = cr, !.it = cr + 1,
                       !.out = <<>>, !.pos = 0]

\* One iteration of the rewrite loop.
UnixLoopStep(f) ==
    LET s   == f.slice
        cr  == f.m
        sp  == <<f.pos, cr>>
        p   == cr + 1
        g   == UnixPairGuard(cr, EndIndex(Len(s)))
        rd  == IF g THEN {p} ELSE {}
    IN  IF ~InBounds(s, rd, sp)
        THEN Panic(f, rd, sp)
        ELSE
          LET out1 == f.out \o Slice(s, f.pos, cr) \o UnixNewline
              pos1 == IF g /\ At(s, p) = LF THEN p + 1 ELSE p
              nx   == Memchr(s, {CR}, f.it)
          IN  [f EXCEPT !.out = out1, !.pos = pos1,
                        !.reads = rd, !.span = sp, !.iters = @ + 1,
                        !.prev = cr,
                        !.m  = IF nx = None THEN @ ELSE nx,
                        !.it = IF nx = None THEN @ ELSE nx + 1,
                        !.pc = IF nx = None THEN "tail" ELSE "loop"]

\* The tail copy and the owned result.
UnixTailStep(f) ==
    LET out1 == f.out \o UnixCopyTail(f.slice, f.pos)
    IN  [f EXCEPT !.out = out1, !.reads = {},
                  !.span = IF f.pos < Len(f.slice)
                           THEN <<f.pos, Len(f.slice)>> ELSE <<0, 0>>,
                  !.res = [tag |-> "Owned", str |-> out1],
                  !.pc = "done"]

(***************************************************************************)
(* to_dos_newlines                                                         *)
(***************************************************************************)
\* Slip: the two bytes in the wrong order.
DosNewlineSwapped == <<LF, CR>>

\* out.extend_from_slice(&[b'\r', b'\n'])
DosNewline == <<CR, LF>>

\* Slip: only the '\r' of a pair is classified as paired.
DosIsPairedCrOnly(s, match_pos, end_index) ==
    At(s, match_pos) = CR /\ match_pos < end_index
                          /\ At(s, match_pos + 1) = LF

\* Slip: only the '\n' of a pair is classified as paired.
DosIsPairedLfOnly(s, match_pos, end_index) ==
    At(s, match_pos) = LF /\ match_pos > 0
                          /\ At(s, match_pos - 1) = CR

\* The classification of the skip loop: a '\r' directly followed by '\n', or
\* a '\n' directly preceded by '\r', is a properly formatted pair.
DosIsPaired(s, match_pos, end_index) ==
    \/ (At(s, match_pos) = CR /\ match_pos < end_index
                              /\ At(s, match_pos + 1) = LF)
    \/ (At(s, match_pos) = LF /\ match_pos > 0
                              /\ At(s, match_pos - 1) = CR)

\* The offsets the classification indexes (&& and || short-circuit).
DosScanReads(s, match_pos, end_index) ==
    {match_pos}
    \cup (IF At(s, match_pos) = CR /\ match_pos < end_index
          THEN {match_pos + 1} ELSE {})
    \cup (IF At(s, match_pos) = LF /\ match_pos > 0
          THEN {match_pos - 1} ELSE {})

\* Slip: strict comparison.
DosLoopGuardStrict(crlf, pos) == crlf > pos

\* if crlf >= pos
DosLoopGuard(crlf, pos) == crlf >= pos

\* Slip: the '\n' after a substituted '\r' is not consumed.
DosAdvanceNoPair(s, crlf, end_index) == crlf + 1

\* pos = crlf + 1, and one more past the '\n' that follows a '\r'
DosAdvance(s, crlf, end_index) ==
    IF At(s, crlf) = CR /\ crlf < end_index /\ At(s, crlf + 1) = LF
    THEN crlf + 2
    ELSE crlf + 1

\* The offsets one substitution indexes.
DosLoopReads(s, crlf, end_index) ==
    {crlf} \cup (IF At(s, crlf) = CR /\ crlf < end_index
                 THEN {crlf + 1} ELSE {})

\* if pos < len { out.extend_from_slice(&slice[pos..]) }
DosCopyTail(s, pos) ==
    IF pos < Len(s) THEN Slice(s, pos, Len(s)) ELSE <<>>

\* Entry: the iterator over '\n' and '\r', and the sentinel.
DosStartStep(f) ==
    [f EXCEPT !.pc = "scan", !.it = 0, !.m = UsizeMax]

\* One iteration of the loop that skips properly formatted pairs.
DosScanStep(f) ==
    LET s  == f.slice
        ei == EndIndex(Len(s))
        match_pos == Memchr(s, {LF, CR}, f.it)
    IN  IF match_pos = None
        THEN [f EXCEPT !.pc = "check", !.reads = {}]
        ELSE
          LET rd == DosScanReads(s, match_pos, ei)
          IN  IF ~InBounds(s, rd, <<0, 0>>)
              THEN Panic(f, rd, <<0, 0>>)
              ELSE IF DosIsPaired(s, match_pos, ei)
              THEN [f EXCEPT !.it = match_pos + 1, !.reads = rd,
                             !.prev = match_pos]
              ELSE [f EXCEPT !.it = match_pos + 1, !.reads = rd,
                             !.m = match_pos, !.pc = "check"]

\* After the skip loop: the borrowed fast path, or the output buffer.
DosCheckStep(f) ==
    IF f.m = UsizeMax
    THEN [f EXCEPT !.pc = "done", !.reads = {},
                   !.res = [tag |-> "Borrowed", str |-> f.slice]]
    ELSE [f EXCEPT !.pc = "loop", !.reads = {}, !.out = <<>>, !.pos = 0]

\* One iteration of the rewrite loop.
DosLoopStep(f) ==
    LET s    == f.slice
        ei   == EndIndex(Len(s))
        crlf == f.m
        sub  == DosLoopGuard(crlf, f.pos)
        sp   == IF sub THEN <<f.pos, crlf>> ELSE <<0, 0>>
        rd   == IF sub THEN DosLoopReads(s, crlf, ei) ELSE {}
    IN  IF ~InBounds(s, rd, sp)
        THEN Panic(f, rd, sp)
        ELSE
          LET out1 == IF sub THEN f.out \o Slice(s, f.pos, crlf) \o DosNewline
                             ELSE f.out
              pos1 == IF sub THEN DosAdvance(s, crlf, ei) ELSE f.pos
              nx   == Memchr(s, {LF, CR}, f.it)
          IN  [f EXCEPT !.out = out1, !.pos = pos1,
                        !.reads = rd, !.span = sp, !.iters = @ + 1,
                        !.prev = crlf,
                        !.m  = IF nx = None THEN @ ELSE nx,
                        !.it = IF nx = None THEN @ ELSE nx + 1,
                        !.pc = IF nx = None THEN "tail" ELSE "loop"]

\* The tail copy and the owned result.
DosTailStep(f) ==
    LET out1 == f.out \o DosCopyTail(f.slice, f.pos)
    IN  [f EXCEPT !.out = out1, !.reads = {},
                  !.span = IF f.pos < Len(f.slice)
                           THEN <<f.pos, Len(f.slice)>> ELSE <<0, 0>>,
                  !.res = [tag |-> "Owned", str |-> out1],
                  !.pc = "done"]

(***************************************************************************)
(* The functions as a whole: a call run to its end.                        *)
(***************************************************************************)
Step(f) ==
    CASE f.op = "unix" /\ f.pc = "start" -> UnixStartStep(f)
      [] f.op = "unix" /\ f.pc = "loop"  -> UnixLoopStep(f)
      [] f.op = "unix" /\ f.pc = "tail"  -> UnixTailStep(f)
      [] f.op = "dos"  /\ f.pc = "start" -> DosStartStep(f)
      [] f.op = "dos"  /\ f.pc = "scan"  -> DosScanStep(f)
      [] f.op = "dos"  /\ f.pc = "check" -> DosCheckStep(f)
      [] f.op = "dos"  /\ f.pc = "loop"  -> DosLoopStep(f)
      [] f.op = "dos"  /\ f.pc = "tail"  -> DosTailStep(f)

RECURSIVE Run(_)
Run(f) == IF f.pc \in {"done", "panic"} THEN f ELSE Run(Step(f))

\* The Cow a complete call returns.
to_unix_newlines(t) == Run(NewFrame("unix", t)).res
to_dos_newlines(t) == Run(NewFrame("dos", t)).res

(***************************************************************************)
(* The caller and the steps of the running call.                           *)
(***************************************************************************)
Init ==
    /\ text \in Texts
    /\ frame = IdleFrame
    /\ calls = <<>>

\* The argument of the next call: the text, or the result of the last call.
NextArg == IF calls = <<>> THEN text ELSE calls[Len(calls)].str

Call(op) ==
    /\ frame.pc = "idle"
    /\ Len(calls) < MaxCalls
    /\ frame' = NewFrame(op, NextArg)
    /\ UNCHANGED <<text, calls>>

UnixStart ==
    /\ frame.op = "unix" /\ frame.pc = "start"
    /\ frame' = UnixStartStep(frame)
    /\ UNCHANGED <<text, calls>>

UnixLoop ==
    /\ frame.op = "unix" /\ frame.pc = "loop"
    /\ frame' = UnixLoopStep(frame)
    /\ UNCHANGED <<text, calls>>

UnixTail ==
    /\ frame.op = "unix" /\ frame.pc = "tail"
    /\ frame' = UnixTailStep(frame)
    /\ UNCHANGED <<text, calls>>

DosStart ==
    /\ frame.op = "dos" /\ frame.pc = "start"
    /\ frame' = DosStartStep(frame)
    /\ UNCHANGED <<text, calls>>

DosScan ==
    /\ frame.op = "dos" /\ frame.pc = "scan"
    /\ frame' = DosScanStep(frame)
    /\ UNCHANGED <<text, calls>>

DosCheck ==
    /\ frame.op = "dos" /\ frame.pc = "check"
    /\ frame' = DosCheckStep(frame)
    /\ UNCHANGED <<text, calls>>

DosLoop ==
    /\ frame.op = "dos" /\ frame.pc = "loop"
    /\ frame' = DosLoopStep(frame)
    /\ UNCHANGED <<text, calls>>

DosTail ==
    /\ frame.op = "dos" /\ frame.pc = "tail"
    /\ frame' = DosTailStep(frame)
    /\ UNCHANGED <<text, calls>>

Return ==
    /\ frame.pc = "done"
    /\ calls' = Append(calls, [op |-> frame.op, arg |-> frame.slice,
                               tag |-> frame.res.tag, str |-> frame.res.str])
    /\ frame' = IdleFrame
    /\ UNCHANGED text

Next ==
    \/ Call("unix")
    \/ Call("dos")
    \/ UnixStart
    \/ UnixLoop
    \/ UnixTail
    \/ DosStart
    \/ DosScan
    \/ DosCheck
    \/ DosLoop
    \/ DosTail
    \/ Return

Spec == Init /\ [][Next]_vars

(***************************************************************************)
(* Reference definitions the properties are stated against.                *)
(***************************************************************************)
Drop(s, n) == SubSeq(s, n + 1, Len(s))

\* Left to right: "\r\n" and a lone '\r' become one '\n', the rest is copied.
RECURSIVE RefUnix(_)
RefUnix(s) ==
    IF s = <<>> THEN <<>>
    ELSE IF s[1] = CR
         THEN <<LF>> \o RefUnix(IF Len(s) >= 2 /\ s[2] = LF
                                THEN Drop(s, 2) ELSE Drop(s, 1))
         ELSE <<s[1]>> \o RefUnix(Drop(s, 1))

\* Byte i (0-based) of s starts a newline occurrence: a '\r' (paired or
\* lone), or a '\n' that no '\r' precedes.
IsCrLfAt(s, i) == At(s, i) = CR /\ i + 1 < Len(s) /\ At(s, i + 1) = LF
IsLoneCr(s, i) == At(s, i) = CR /\ ~(i + 1 < Len(s) /\ At(s, i + 1) = LF)
IsLoneLf(s, i) == At(s, i) = LF /\ ~(i > 0 /\ At(s, i - 1) = CR)
Offsets(s) == 0..(Len(s) - 1)

NewlineOccurrences(s) ==
    Cardinality({ i \in Offsets(s) :
                    IsCrLfAt(s, i) \/ IsLoneCr(s, i) \/ IsLoneLf(s, i) })

\* Left to right from offset i: one "\r\n" per newline occurrence.
RECURSIVE RefDosFrom(_, _)
RefDosFrom(s, i) ==
    IF i >= Len(s) THEN <<>>
    ELSE IF IsCrLfAt(s, i) THEN <<CR, LF>> \o RefDosFrom(s, i + 2)
    ELSE IF IsLoneCr(s, i) \/ IsLoneLf(s, i)
         THEN <<CR, LF>> \o RefDosFrom(s, i + 1)
    ELSE <<At(s, i)>> \o RefDosFrom(s, i + 1)

RefDos(s) == RefDosFrom(s, 0)

\* The algorithm as specified: every match that is not correctly paired is
\* replaced by "\r\n", every other byte (paired matches included) is copied.
RECURSIVE SpecDosFrom(_, _)
SpecDosFrom(s, i) ==
    IF i >= Len(s) THEN <<>>
    ELSE (IF IsLoneCr(s, i) \/ IsLoneLf(s, i) THEN <<CR, LF>>
          ELSE <<At(s, i)>>) \o SpecDosFrom(s, i + 1)

SpecDos(s) == SpecDosFrom(s, 0)

Count(s, bytes) == Cardinality({ i \in Offsets(s) : At(s, i) \in bytes })

\* The bytes of s that are neither '\r' nor '\n', in order.
NonNewline(s) == SelectSeq(s, LAMBDA b : b \notin {CR, LF})

\* Each lead byte of the two-byte code point is directly followed by its
\* continuation byte, and each continuation byte directly follows a lead.
CodePointsIntact(s) ==
    \A i \in Offsets(s) :
        /\ At(s, i) = EAcuteLead => (i + 1 < Len(s) /\ At(s, i + 1) = EAcuteCont)
        /\ At(s, i) = EAcuteCont => (i > 0 /\ At(s, i - 1) = EAcuteLead)

Done(op) == frame.pc = "done" /\ frame.op = op

\* The running call is the second one, after a first call of `first`.
Second(first) == Len(calls) = 1 /\ calls[1].op = first

(***************************************************************************)
(* Properties.                                                             *)
(***************************************************************************)
\* C1: to_unix_newlines(T) is T with each "\r\n" pair and each lone '\r'
\* replaced, left to right, by one '\n' and every other byte copied; it also
\* equals replace(replace(T, "\r\n", "\n"), "\r", "\n").
C1_UnixMatchesReference ==
    Done("unix") =>
        /\ frame.res.str = RefUnix(frame.slice)
        /\ frame.res.str = Replace(Replace(frame.slice, <<CR, LF>>, <<LF>>),
                                   <<CR>>, <<LF>>)

\* A finished unix call on an input holding both "\r\r" and "\r\n".
C1_Witness ==
    /\ Done("unix")
    /\ frame.res.tag = "Owned"
    /\ \E i \in Offsets(frame.slice) : IsCrLfAt(frame.slice, i)
    /\ \E i \in Offsets(frame.slice) :
           i + 1 < Len(frame.slice) /\ At(frame.slice, i) = CR
                                    /\ At(frame.slice, i + 1) = CR

\* C2: to_dos_newlines(T) is T with exactly one "\r\n" per newline occurrence
\* ("\r\n", a '\r' not followed by '\n', a '\n' not preceded by '\r') and
\* every other byte copied; pairs are not duplicated.
C2_DosMatchesReference ==
    Done("dos") => frame.res.str = RefDos(frame.slice)

\* A finished dos call on an input holding "\r\n\n".
C2_Witness ==
    /\ Done("dos")
    /\ frame.res.tag = "Owned"
    /\ \E i \in Offsets(frame.slice) :
           /\ IsCrLfAt(frame.slice, i)
           /\ i + 2 < Len(frame.slice)
           /\ At(frame.slice, i + 2) = LF

\* C3: to_unix_newlines returns the borrowed input exactly when the input
\* holds no '\r'; otherwise it returns the owned variant.
C3_UnixBorrowedIffNoCr ==
    Done("unix") =>
        /\ frame.res.tag \in {"Borrowed", "Owned"}
        /\ (frame.res.tag = "Borrowed") <=> (Count(frame.slice, {CR}) = 0)
        /\ frame.res.tag = "Borrowed" => frame.res.str = frame.slice

\* A borrowed unix result for an input that does hold '\n'.
C3_Witness ==
    /\ Done("unix")
    /\ frame.res.tag = "Borrowed"
    /\ Count(frame.slice, {LF}) > 0
    /\ Len(frame.slice) >= 2

\* C4: to_dos_newlines returns the borrowed input exactly when the input
\* holds no lone '\r' and no lone '\n'; otherwise it returns the owned variant.
C4_DosBorrowedIffAllPaired ==
    Done("dos") =>
        /\ frame.res.tag \in {"Borrowed", "Owned"}
        /\ (frame.res.tag = "Borrowed") <=>
               (\A i \in Offsets(frame.slice) :
                    ~IsLoneCr(frame.slice, i) /\ ~IsLoneLf(frame.slice, i))
        /\ frame.res.tag = "Borrowed" => frame.res.str = frame.slice

\* A borrowed dos result for an input that starts with "\r\n" and goes on.
C4_Witness ==
    /\ Done("dos")
    /\ frame.res.tag = "Borrowed"
    /\ Len(frame.slice) >= 3
    /\ IsCrLfAt(frame.slice, 0)

\* C5: both functions are idempotent: applying the same function to its own
\* result gives that result again.
C5_Idempotent ==
    /\ (Done("unix") /\ Second("unix")) => frame.res.str = calls[1].str
    /\ (Done("dos") /\ Second("dos")) => frame.res.str = calls[1].str

\* A second dos call finished on the rebuilt result of a first dos call.
C5_Witness ==
    /\ Done("dos") /\ Second("dos")
    /\ calls[1].tag = "Owned"
    /\ Len(calls[1].str) >= 4

\* C6: to_unix_newlines(to_dos_newlines(T)) has no '\r', exactly one '\n' per
\* newline occurrence of T, and equals to_unix_newlines(T).
C6_CrossConversion ==
    (Done("unix") /\ Second("dos")) =>
        /\ Count(frame.res.str, {CR}) = 0
        /\ Count(frame.res.str, {LF}) = NewlineOccurrences(calls[1].arg)
        /\ frame.res.str = to_unix_newlines(calls[1].arg).str

\* unix after dos on a text mixing a lone '\n' or '\r' with a "\r\n" pair.
C6_Witness ==
    /\ Done("unix") /\ Second("dos")
    /\ \E i \in Offsets(calls[1].arg) : IsCrLfAt(calls[1].arg, i)
    /\ \E i \in Offsets(calls[1].arg) : IsLoneLf(calls[1].arg, i)
    /\ \E i \in Offsets(calls[1].arg) : IsLoneCr(calls[1].arg, i)

\* C7: for both functions the bytes of the result other than '\r' and '\n'
\* are those of the input, in the same order, and the bytes of a multi-byte
\* code point stay adjacent.
C7_NonNewlinePreserved ==
    (Done("unix") \/ Done("dos")) =>
        /\ NonNewline(frame.res.str) = NonNewline(frame.slice)
        /\ CodePointsIntact(frame.res.str)

\* A rebuilt result for an input with a two-byte code point and a tail.
C7_Witness ==
    /\ Done("unix")
    /\ frame.res.tag = "Owned"
    /\ Count(frame.slice, {EAcuteLead}) > 0
    /\ At(frame.slice, Len(frame.slice) - 1) = LatinA

\* C8: len(to_dos_newlines(T)) >= len(T), len(to_unix_newlines(T)) <= len(T),
\* and either result is at most twice and at least half as long as T.
C8_LengthBounds ==
    /\ Done("dos") => Len(frame.res.str) >= Len(frame.slice)
    /\ Done("unix") => Len(frame.res.str) <= Len(frame.slice)
    /\ (Done("unix") \/ Done("dos")) =>
           /\ Len(frame.res.str) <= 2 * Len(frame.slice)
           /\ 2 * Len(frame.res.str) >= Len(frame.slice)

\* A dos result exactly twice as long as its (non-empty) input.
C8_Witness ==
    /\ Done("dos")
    /\ Len(frame.slice) >= 2
    /\ Len(frame.res.str) = 2 * Len(frame.slice)

\* The matches the iterator of the running call has yielded so far.
Needles == IF frame.op = "unix" THEN {CR} ELSE {CR, LF}
Yielded == Cardinality({ i \in Offsets(frame.slice) :
                           i < frame.it /\ At(frame.slice, i) \in Needles })

C9_State ==
    frame.op \in {"unix", "dos"} =>
        /\ frame.pc # "panic"
        /\ \A i \in frame.reads : 0 <= i /\ i < Len(frame.slice)
        /\ frame.span[1] <= frame.span[2]
        /\ frame.span[2] <= Len(frame.slice)
        /\ frame.pos <= Len(frame.slice)
        /\ frame.it <= Len(frame.slice)
        /\ frame.iters <= Yielded

C9_Step ==
    /\ frame.pc \in {"loop", "tail"} => frame'.pos >= frame.pos
    /\ (frame.pc = "loop" /\ frame'.pc = "loop") => frame'.it > frame.it

\* C9: no call fails: every offset indexed and every range sliced is within
\* the input, pos never decreases and stays <= len, and the rewrite loops run
\* at most one iteration per matched byte (the iterator advances each time).
C9_NeverFails == [](C9_State) /\ [][C9_Step]_vars

\* Finished calls on an input that ends in a lone '\r' after a rewrite.
C9_Witness ==
    /\ Done("dos")
    /\ frame.iters >= 2
    /\ IsLoneCr(frame.slice, Len(frame.slice) - 1)
    /\ IsLoneLf(frame.slice, 0)

\* C10: the rewrite loop of to_dos_newlines gives the output of the specified
\* algorithm (substitute at unpaired matches only), and its guard crlf >= pos
\* is false exactly for the '\n' of a "\r\n" whose '\r' was the match before.
C10_LoopRefinesSpec ==
    /\ Done("dos") => frame.res.str = SpecDos(frame.slice)
    /\ (frame.op = "dos" /\ frame.pc = "loop") =>
           ((frame.m < frame.pos) <=>
               /\ At(frame.slice, frame.m) = LF
               /\ frame.m > 0
               /\ At(frame.slice, frame.m - 1) = CR
               /\ frame.prev = frame.m - 1)

\* A rebuilt dos result for an input with a "\r\n" pair after an unpaired match.
C10_Witness ==
    /\ Done("dos")
    /\ frame.res.tag = "Owned"
    /\ \E i, j \in Offsets(frame.slice) :
           /\ i < j
           /\ IsLoneCr(frame.slice, i) \/ IsLoneLf(frame.slice, i)
           /\ IsCrLfAt(frame.slice, j)

=============================================================================
